---------------------------- MODULE Spec2Model ----------------------------
(***************************************************************************)
(* A model of backend/services/csv_validator.py: one call of               *)
(* EnhancedCSVValidator.validate_csv_file on one file.                     *)
(*                                                                         *)
(* The input is the file.  It is fixed by Init and never changes: what     *)
(* pd.read_csv does with it under each candidate encoding, its header line *)
(* and its data lines.  The call is a sequence of steps (pc), one per      *)
(* statement group of validate_csv_file; an exception raised inside the    *)
(* outer try block moves the call to the except clause of line 104.        *)
(*                                                                         *)
(* Text is a sequence of one-character strings, so that strip, lower and   *)
(* slicing are computed and not assumed.                                   *)
(***************************************************************************)
EXTENDS Integers, Sequences, FiniteSets, TLC

VARIABLES
    validator,      \* the EnhancedCSVValidator instance: its attributes
    calls,          \* the calls of validate_csv_file made on the instance
    first,          \* the result the first call returned, once a second began
    upload,         \* the upload request and what its handler did so far
    file,           \* the input file (read only)
    pc,             \* the statement of validate_csv_file the call is at
    enc,            \* index into encodings of the candidate the loop is at
    attempts,       \* the encodings pd.read_csv was called with, in order
    df,             \* the DataFrame, or None
    used_encoding,  \* used_encoding, or None
    result,         \* the CSVValidationResult under construction
    ran,            \* the checkers called so far, in call order
    raised,         \* the step whose exception reached the except clause
    returned        \* "no" while running, "result" after a return,
                    \* "exception" if an exception left the call

vars == <<validator, calls, first, upload, file, pc, enc, attempts, df,
          used_encoding, result, ran, raised, returned>>

None == "None"

\* df = None
NoDf == [none |-> TRUE]
\* self.summary = {}
EmptySummary == [empty |-> TRUE]
\* self.detailed_report = ""
EmptyReport == [empty |-> TRUE]

-----------------------------------------------------------------------------
(* Bounds of the model *)

\* most columns of a header line
MaxCols == 3
\* most data lines of a file of the general families
MaxRows == 2
\* most data lines of a file of the one-column family (above the cap of 10)
MaxLongRows == 12
\* most data lines that are not empty in a file of the one-column family
MaxFilled == 2
\* a typed column is a head of free cells, a run of numbers, a tail of free
\* cells: the most cells of the head, of the run and of the tail
MaxHead == 4
MaxPad == 10
MaxTail == 1
\* the data lines of the file whose numeric count is 0.7 of its lines
EdgeRows == 90
\* most data lines of a file of the null-like family
MaxNullLikeRows == 5
\* the data lines of a file of the encoding family
MaxScanRows == 101
\* most empty rows of a file of the many-findings family
MaxEmptyRows == 11
\* most empty rows of a file of the late-fault family
MaxRowsBeforeFault == 4
\* most data lines of a file whose lines differ in their number of fields
MaxRaggedRows == 2
\* most calls of validate_csv_file on one validator
MaxCalls == 2

-----------------------------------------------------------------------------
(* Program constants *)

\* csv_validator.py:29
encodings == <<"utf-8", "latin-1", "cp1252", "iso-8859-1", "utf-16">>

\* csv_validator.py:120 and :129, the cap on reported empty rows
EmptyRowCap == 10

\* csv_validator.py:158, the rows sampled for the type check
TypeSampleCap == 1000
\* csv_validator.py:183, the inconsistent entries collected per column
InconsistentCap == 5
\* csv_validator.py:193, a column is judged above this many typed values
MinTyped == 10
\* csv_validator.py:196, the inconsistent entries reported per column
TypeShownCap == 3
\* csv_validator.py:211, the suspicious values reported per column
SuspiciousCap == 3
\* csv_validator.py:229, the rows scanned for encoding issues
EncodingScanCap == 100
\* csv_validator.py:236, the characters of a value in an encoding warning
ValuePreviewLen == 50

-----------------------------------------------------------------------------
(* Text *)

\* the float nan of a DataFrame cell; no text equals it
NaN == <<"NaN">>

T_empty    == <<>>
T_1        == <<"1">>
T_x        == <<"x">>
T_NA       == <<"N", "A">>
T_N_A      == <<"N", "/", "A">>
T_dash     == <<"-">>
T_7        == <<"7">>
T_minus3   == <<"-", "3">>
T_date     == <<"2", "0", "2", "0", "-", "0", "1", "-", "0", "1">>

\* Strings pd.read_csv turns into NaN by default (keep_default_na): those
\* of its list that every pandas version has and a file of the model can
\* hold.
PandasNaValues ==
    {T_empty, T_NA, T_N_A, <<"n", "/", "a">>, <<"N", "U", "L", "L">>,
     <<"n", "u", "l", "l">>, <<"N", "a", "N">>, <<"n", "a", "n">>,
     <<"#", "N", "/", "A">>, <<"#", "N", "A">>, <<"<", "N", "A", ">">>,
     <<"-", "N", "a", "N">>, <<"-", "n", "a", "n">>}

\* csv_validator.py:19, self.suspicious_values
suspicious_values ==
    << <<"N", "/", "A">>, <<"n", "/", "a">>, <<"n", "u", "l", "l">>,
       <<"N", "U", "L", "L">>, <<"N", "o", "n", "e">>,
       <<"#", "N", "/", "A">>, <<"#", "N", "U", "L", "L", "!">>,
       <<"u", "n", "d", "e", "f", "i", "n", "e", "d">>, <<>>, <<" ">>,
       <<"-">>, <<"N", "a", "N">>, <<"n", "a", "n">> >>

T_nan == <<"n", "a", "n">>

\* the character U+FFFD, one character of a text
ReplacementChar == "U+FFFD"

WhitespaceChars == {" ", "\t", "\n", "\r"}
DigitChars == {"0", "1", "2", "3", "4", "5", "6", "7", "8", "9"}
UpperChars ==
    <<"A", "B", "C", "D", "E", "F", "G", "H", "I", "J", "K", "L", "M", "N",
      "O", "P", "Q", "R", "S", "T", "U", "V", "W", "X", "Y", "Z">>
LowerChars ==
    <<"a", "b", "c", "d", "e", "f", "g", "h", "i", "j", "k", "l", "m", "n",
      "o", "p", "q", "r", "s", "t", "u", "v", "w", "x", "y", "z">>

Reverse(s) == [i \in 1..Len(s) |-> s[Len(s) + 1 - i]]

RECURSIVE LStrip(_)
LStrip(s) ==
    IF s # <<>> /\ Head(s) \in WhitespaceChars THEN LStrip(Tail(s)) ELSE s

\* str.strip()
Strip(s) == Reverse(LStrip(Reverse(LStrip(s))))

LowerChar(ch) ==
    IF \E i \in 1..Len(UpperChars) : UpperChars[i] = ch
    THEN LowerChars[CHOOSE i \in 1..Len(UpperChars) : UpperChars[i] = ch]
    ELSE ch

\* str.lower()
Lower(s) == [i \in 1..Len(s) |-> LowerChar(s[i])]

\* str(value) of a DataFrame cell.  A cell that is text is itself; NaN is
\* 'nan'.  (A number of a numeric column prints as a number: no checker
\* tells its text from the text the file had.)
Str(value) == IF value = NaN THEN T_nan ELSE value

IsDigits(s) == s # <<>> /\ \A i \in 1..Len(s) : s[i] \in DigitChars

Unsigned(s) == IF s # <<>> /\ Head(s) \in {"+", "-"} THEN Tail(s) ELSE s

\* digits, digits., digits.digits, .digits
IsMantissa(s) ==
    \/ IsDigits(s)
    \/ \E k \in 1..Len(s) :
          /\ s[k] = "."
          /\ LET int == SubSeq(s, 1, k - 1)
                 frac == SubSeq(s, k + 1, Len(s))
             IN /\ int = <<>> \/ IsDigits(int)
                /\ frac = <<>> \/ IsDigits(frac)
                /\ int # <<>> \/ frac # <<>>

IsDecimalFloat(s) ==
    \/ IsMantissa(s)
    \/ \E k \in 1..Len(s) :
          /\ s[k] \in {"e", "E"}
          /\ IsMantissa(SubSeq(s, 1, k - 1))
          /\ IsDigits(Unsigned(SubSeq(s, k + 1, Len(s))))

\* float(text) does not raise ValueError
FloatParses(s) ==
    LET body == Unsigned(Strip(s)) IN
    \/ IsDecimalFloat(body)
    \/ Lower(body) \in {<<"i", "n", "f">>, T_nan,
                        <<"i", "n", "f", "i", "n", "i", "t", "y">>}

\* _is_numeric, lines 240-246
is_numeric(value) == FloatParses(SelectSeq(value, LAMBDA ch : ch # ","))

\* lines 250-255; "d" stands for \d, every other character for itself
date_patterns ==
    << <<"d", "d", "d", "d", "-", "d", "d", "-", "d", "d">>,
       <<"d", "d", "/", "d", "d", "/", "d", "d", "d", "d">>,
       <<"d", "d", "-", "d", "d", "-", "d", "d", "d", "d">>,
       <<"d", "d", "d", "d", "/", "d", "d", "/", "d", "d">> >>

\* re.match(pattern, s): the pattern matches a prefix of s
ReMatch(pattern, s) ==
    /\ Len(s) >= Len(pattern)
    /\ \A i \in 1..Len(pattern) :
          IF pattern[i] = "d" THEN s[i] \in DigitChars ELSE s[i] = pattern[i]

\* _is_date_like, lines 248-256
is_date_like(value) ==
    \E p \in 1..Len(date_patterns) : ReMatch(date_patterns[p], Strip(value))

-----------------------------------------------------------------------------
(* pd.read_csv *)

\* The number of j < i with s[j] = s[i].
Earlier(s, i) == Cardinality({j \in 1..(i - 1) : s[j] = s[i]})

\* pd.read_csv renames a repeated header name: its k-th repeat (k >= 1)
\* becomes "name.k" (mangled duplicate columns).
MangleDupeCols(header) ==
    [i \in 1..Len(header) |->
        IF Earlier(header, i) = 0 THEN header[i]
        ELSE header[i] \o <<".", ToString(Earlier(header, i))>>]

\* A raw cell as pd.read_csv stores it.
ParseCell(raw) == IF raw \in PandasNaValues THEN NaN ELSE raw

\* skip_blank_lines: a line without any character is no row.  Only a
\* one-column file can have such a data line.
IsBlankLine(row) == Len(row) = 1 /\ row[1] = T_empty

SkipBlankLines(rows) == SelectSeq(rows, LAMBDA row : ~IsBlankLine(row))

\* The fields pd.read_csv expects of a data line after the first: those of
\* the header line, or those of the first data line when it has more.
\* kept is the data lines that are not blank.
ExpectedFields(header, kept) ==
    LET line_1 == IF kept = <<>> THEN 0 ELSE Len(kept[1])
    IN IF line_1 > Len(header) THEN line_1 ELSE Len(header)

\* "Error tokenizing data. C error: Expected n fields in line k, saw m": a
\* data line after the first has more fields than expected.
TokenizingError(f) ==
    LET kept == SkipBlankLines(f.rows)
        expected == ExpectedFields(f.header, kept)
    IN \E r \in 2..Len(kept) : Len(kept[r]) > expected

\* The DataFrame of a file that pd.read_csv reads without error.  The
\* fields of the first data line beyond those of the header are leading
\* fields: pd.read_csv takes that many fields of every data line as the
\* row's label (index_col is not given).  A data line of fewer fields than
\* expected is filled up with NaN.  index[r] is the label of row r as the
\* file gives it: no field (the label is then the 0-based position,
\* RangeIndex), or the leading fields.
ReadCsv(f) ==
    LET kept == SkipBlankLines(f.rows)
        lead == ExpectedFields(f.header, kept) - Len(f.header)
    IN [columns |-> MangleDupeCols(f.header),
        rows    |-> [r \in 1..Len(kept) |->
                       [c \in 1..Len(f.header) |->
                          IF lead + c <= Len(kept[r])
                          THEN ParseCell(kept[r][lead + c]) ELSE NaN]],
        index   |-> [r \in 1..Len(kept) |->
                       [c \in 1..lead |->
                          IF c <= Len(kept[r]) THEN ParseCell(kept[r][c])
                          ELSE NaN]]]

\* What pd.read_csv does under encodings[e]: "ok", "decode" (it raises
\* UnicodeDecodeError) or "other" (it raises another Exception).  A file
\* without a header line has no columns to parse: EmptyDataError, whatever
\* the encoding; a data line of too many fields is a ParserError under every
\* encoding that decodes the file.
ReadOutcome(f, e) ==
    IF f.header = <<>> THEN "other"
    ELSE IF f.outcome[e] = "ok" /\ TokenizingError(f) THEN "other"
    ELSE f.outcome[e]

\* An integer literal: digits after an optional sign.
IsIntegerText(s) ==
    IF s # <<>> /\ s[1] = "-" THEN IsDigits(Tail(s)) ELSE IsDigits(s)

DigitValue(ch) == CHOOSE n \in 0..9 : ToString(n) = ch

\* the number a text of digits reads as
RECURSIVE DigitsValue(_)
DigitsValue(s) ==
    IF s = <<>> THEN 0
    ELSE 10 * DigitsValue(SubSeq(s, 1, Len(s) - 1)) + DigitValue(s[Len(s)])

IntegerValue(s) == IF s[1] = "-" THEN 0 - DigitsValue(Tail(s)) ELSE DigitsValue(s)

\* The labels are integers: the positions of a RangeIndex, or one leading
\* field that is an integer literal in every row.  Labels of any other kind
\* among the files of the model are strings (a leading field that is no
\* number) or tuples (two leading fields).
IntegerIndex(d) ==
    \A r \in 1..Len(d.index) :
        \/ d.index[r] = <<>>
        \/ Len(d.index[r]) = 1 /\ d.index[r][1] # NaN
                               /\ IsIntegerText(d.index[r][1])

\* idx, for an integer index: the label of row r
Idx(d, r) ==
    IF d.index[r] = <<>> THEN r - 1
    ELSE IF IntegerIndex(d) THEN IntegerValue(d.index[r][1]) ELSE 0

-----------------------------------------------------------------------------
(* Findings *)

\* A message: its fixed text and the text formatted into it.
Msg(text, arg) == [text |-> text, arg |-> arg]

T_all == <<"a", "l", "l">>

Finding(line, column, error, value, severity) ==
    [line |-> line, column |-> column, error |-> error, value |-> value,
     severity |-> severity]

\* A warning is a dict without a 'severity' key; the model gives the key
\* the value None.
Warning(line, column, error, value) ==
    Finding(line, column, error, value, None)

\* (mutant) every entry of errors counted as critical
Criticals_AnySeverity(errors) == errors

Criticals(errors) == SelectSeq(errors, LAMBDA e : e.severity = "critical")

FailedToRead(encoding) ==
    Finding(0, <<>>, Msg("Failed to read CSV with", <<encoding>>), <<>>,
            "critical")

CouldNotRead ==
    Finding(0, <<>>,
            Msg("Could not read file with any supported encoding", <<>>),
            <<>>, "critical")

CompletelyEmpty ==
    Finding(0, <<>>, Msg("CSV file is completely empty", <<>>), <<>>,
            "critical")

UnexpectedError ==
    Finding(0, <<>>, Msg("Unexpected error during validation", <<>>), <<>>,
            "critical")

-----------------------------------------------------------------------------
(* DataFrame helpers *)

NRows(d) == Len(d.rows)
NCols(d) == Len(d.columns)

\* df.empty: no rows or no columns
IsEmptyDf(d) == NRows(d) = 0 \/ NCols(d) = 0

\* df.isnull().all(axis=1) for row r
RowAllNull(d, r) == \A c \in 1..NCols(d) : d.rows[r][c] = NaN

\* the member of a set of one member
Only(S) == CHOOSE x \in S : TRUE

\* the members of a finite set of integers, in increasing order
SetToSortedSeq(S) ==
    IF S = {} THEN <<>>
    ELSE LET lo == CHOOSE x \in S : \A y \in S : x <= y
             hi == CHOOSE x \in S : \A y \in S : y <= x
         IN SelectSeq([i \in 1..(hi - lo + 1) |-> lo + i - 1],
                      LAMBDA x : x \in S)

\* empty_rows[empty_rows].index.tolist(): the labels of the empty rows, in
\* row order
EmptyRowIndices(d) ==
    LET at == SetToSortedSeq({r \in 1..NRows(d) : RowAllNull(d, r)})
    IN [k \in 1..Len(at) |-> Idx(d, at[k])]

Take(s, n) == SubSeq(s, 1, IF Len(s) < n THEN Len(s) ELSE n)

-----------------------------------------------------------------------------
(* The checkers, as functions of the DataFrame *)

\* _check_empty_rows: what it appends to result.errors
EmptyRowErrors(d) ==
    LET shown == Take(EmptyRowIndices(d), EmptyRowCap) IN
    [k \in 1..Len(shown) |->
        Finding(shown[k] + 2, T_all,
                Msg("Completely empty row detected", <<>>), <<>>, "error")]

\* (mutant) the summary warning given from the cap on, not above it
EmptyRowWarnings_AtCap(d) ==
    LET n == Len(EmptyRowIndices(d)) IN
    IF n >= EmptyRowCap
    THEN <<Warning(0, <<>>, Msg("Found empty rows in total", <<ToString(n)>>),
                   <<>>)>>
    ELSE <<>>

\* _check_empty_rows: what it appends to result.warnings
EmptyRowWarnings(d) ==
    LET n == Len(EmptyRowIndices(d)) IN
    IF n > EmptyRowCap
    THEN <<Warning(0, <<>>, Msg("Found empty rows in total", <<ToString(n)>>),
                   <<>>)>>
    ELSE <<>>

\* df.columns[df.columns.duplicated()].tolist(): every occurrence of a name
\* after its first
DuplicatedCols(d) ==
    LET at == SetToSortedSeq({i \in 1..NCols(d) : Earlier(d.columns, i) > 0})
    IN [k \in 1..Len(at) |-> d.columns[at[k]]]

Range(s) == {s[i] : i \in 1..Len(s)}

\* The orders in which "for col in set(duplicated_cols)" can visit the
\* names: a set of strings has no order the code fixes.
SetOrders(S) ==
    {o \in [1..Cardinality(S) -> S] : Range(o) = S}

DuplicateColumnFinding(col) ==
    Finding(1, col, Msg("Duplicate column name detected", col), col,
            "critical")

\* _check_duplicate_columns: what it appends to result.errors when the set
\* is visited in the given order
DuplicateColumnErrors(d, order) ==
    IF NCols(d) # Cardinality(Range(d.columns))
    THEN [k \in 1..Len(order) |-> DuplicateColumnFinding(order[k])]
    ELSE <<>>

-----------------------------------------------------------------------------
(* The input files *)

Outcomes == {"ok", "decode", "other"}

\* latin-1 and iso-8859-1 give every byte a character: reading under them
\* never raises UnicodeDecodeError.
OutcomeVectors ==
    {o \in [1..Len(encodings) -> Outcomes] :
        o[2] # "decode" /\ o[4] # "decode"}

AllOk == [e \in 1..Len(encodings) |-> "ok"]

\* The steps of the try block that can raise, besides pd.read_csv.
FaultSites ==
    {"summary", "empty_rows", "duplicate_columns", "type_consistency",
     "suspicious_values", "encoding_issues", "report"}

ColumnNames == {<<"a">>, <<"b">>}

SeqsUpTo(S, lo, hi) == UNION {[1..n -> S] : n \in lo..hi}

File(outcome, header, rows, fault) ==
    [outcome |-> outcome, header |-> header, rows |-> rows, fault |-> fault]

\* every read outcome, on a one-column file of no or one data line
FilesByOutcome ==
    {File(o, <<<<"a">>>>, rows, None) :
        o \in OutcomeVectors,
        rows \in {<<>>, <<<<T_1>>>>, <<<<T_NA>>>>}}

\* a file of zero bytes, and files of a header line only
FilesWithoutRows ==
    {File(AllOk, h, <<>>, None) : h \in SeqsUpTo(ColumnNames, 0, MaxCols)}

\* every header, with data lines of one repeated cell (a one-column line
\* of the empty cell is a blank line)
FilesByHeader ==
    {File(AllOk, h, [r \in 1..n |-> [c \in 1..Len(h) |-> cell]], None) :
        h \in SeqsUpTo(ColumnNames, 1, MaxCols),
        n \in 1..MaxRows,
        cell \in {T_1, T_NA, T_empty}}

\* a step of the try block raises
FilesWithFault ==
    {File(o, <<<<"a">>, <<"b">>>>, <<<<T_1, cell>>, <<T_NA, T_NA>>>>, fault) :
        o \in {AllOk, [AllOk EXCEPT ![1] = "other"]},
        cell \in {T_1, T_x},
        fault \in FaultSites}

\* one column, many data lines, each empty (NA) or not
FilesOfOneColumn ==
    {File(AllOk, <<<<"a">>>>, [r \in 1..Len(cells) |-> <<cells[r]>>], None) :
        cells \in {c \in SeqsUpTo({T_1, T_NA}, MaxRows + 1, MaxLongRows) :
                     Cardinality({r \in 1..Len(c) : c[r] = T_1}) <= MaxFilled}}

\* one column of numbers with text before, between or after them; the
\* last cells can also be a date or the null-like '-'
FilesOfTypedColumn ==
    {File(AllOk, <<<<"a">>>>,
          LET cells == head \o [k \in 1..pad |-> T_1] \o tail
          IN [r \in 1..Len(cells) |-> <<cells[r]>>],
          None) :
        head \in SeqsUpTo({T_1, T_x}, 0, MaxHead),
        pad \in (MaxPad - 2)..MaxPad,
        tail \in SeqsUpTo({T_1, T_x, T_dash, T_date}, 0, MaxTail)}

\* one column: numbers on 0.7 of the lines (rounded down), then text
FilesAtFraction ==
    {File(AllOk, <<<<"a">>>>,
          [r \in 1..EdgeRows |->
              IF 10 * r <= 7 * EdgeRows THEN <<T_1>> ELSE <<T_x>>],
          None)}

\* texts that are null-like tokens in some letter case, with or without
\* blanks around them
NullLikeTexts ==
    {<<"N", "/", "A">>, <<"n", "/", "a">>, <<"N", "/", "a">>,
     <<"n", "/", "A">>, <<" ", "n", "/", "A", " ">>,
     <<"N", "o", "n", "e">>, <<"N", "O", "N", "E">>, <<"n", "o", "n", "e">>,
     <<"N", "u", "l", "l">>, <<"U", "n", "d", "e", "f", "i", "n", "e", "d">>,
     <<" ", "-", " ">>, <<" ">>}

\* one column, one data line holding a null-like text, alone or after text
FilesOfNullLikeText ==
    {File(AllOk, <<<<"a">>>>, before \o <<<<cell>>>>, None) :
        before \in {<<>>, <<<<T_x>>>>},
        cell \in NullLikeTexts}

\* one column of '-' and text cells
FilesOfNullLikeColumn ==
    {File(AllOk, <<<<"a">>>>, [r \in 1..Len(cells) |-> <<cells[r]>>], None) :
        cells \in SeqsUpTo({T_dash, T_x}, 1, MaxNullLikeRows)}

\* a text of n characters, the last of them U+FFFD
DamagedText(n) == [i \in 1..n |-> IF i = n THEN ReplacementChar ELSE "y"]

\* the lines a damaged cell stands on: early, the last line the scan
\* reaches, the last line of the file
DamagedLines == {2, EncodingScanCap, MaxScanRows}

\* one or two columns of MaxScanRows data lines; each column has damaged
\* cells, all of one length, on some of the DamagedLines
FilesOfDamagedText ==
    {File(AllOk, [c \in 1..Len(hits) |-> IF c = 1 THEN <<"a">> ELSE <<"b">>],
          [r \in 1..MaxScanRows |->
              [c \in 1..Len(hits) |->
                  IF r \in hits[c] THEN DamagedText(n) ELSE T_x]],
          None) :
        hits \in SeqsUpTo(SUBSET DamagedLines, 1, 2),
        n \in {1, ValuePreviewLen, ValuePreviewLen + 1}}

\* one or two columns alike: empty rows ('NA' cells), then MinTyped + 1
\* numbers, then a text
FilesWithManyFindings ==
    {File(AllOk, [c \in 1..n |-> IF c = 1 THEN <<"a">> ELSE <<"b">>],
          [r \in 1..(k + MinTyped + 2) |->
              [c \in 1..n |->
                  IF r <= k THEN T_NA
                  ELSE IF r < k + MinTyped + 2 THEN T_1 ELSE T_x]],
          None) :
        n \in 1..2,
        k \in (MaxEmptyRows - 2)..MaxEmptyRows}

\* one column: empty rows ('NA' cells), then a number; a step after the
\* check of the empty rows raises
FilesWithLateFault ==
    {File(AllOk, <<<<"a">>>>, [r \in 1..(k + 1) |-> IF r <= k THEN <<T_NA>> ELSE <<T_1>>],
          fault) :
        k \in 1..MaxRowsBeforeFault,
        fault \in FaultSites \ {"summary", "empty_rows"}}

\* One column "a"; the data lines have one field, or a leading field (a
\* number or a text) and a cell (NA or "-"), or three fields.
RaggedLines ==
    {<<label, cell>> : label \in {T_7, T_minus3, T_x}, cell \in {T_NA, T_dash}}
        \cup {<<T_7>>, <<T_7, T_dash, T_dash>>}

FilesOfRaggedLines ==
    {File(AllOk, <<<<"a">>>>, rows, None) :
        rows \in SeqsUpTo(RaggedLines, 1, MaxRaggedRows)}

\* Lines written with the semicolon as delimiter, "a;b" then "1;2" or
\* "1,5;2" (a decimal comma), as their comma-separated fields
SemicolonLines ==
    {<< <<"1", ";", "2">> >>, << <<"1">>, <<"5", ";", "2">> >>}

FilesOfSemicolons ==
    {File(AllOk, << <<"a", ";", "b">> >>, rows, None) :
        rows \in SeqsUpTo(SemicolonLines, 1, MaxRaggedRows)}

\* a text of n letters
LongText(n) == [i \in 1..n |-> "x"]

\* one column: MinTyped + 1 numbers, then a text of the length at which a
\* value is cut for display, or of one letter more
FilesOfLongValue ==
    {File(AllOk, <<<<"a">>>>,
          [r \in 1..(MinTyped + 2) |->
              IF r <= MinTyped + 1 THEN <<T_1>> ELSE <<LongText(n)>>],
          None) :
        n \in {ValuePreviewLen, ValuePreviewLen + 1}}

Files ==
    FilesByOutcome \cup FilesWithoutRows \cup FilesByHeader
        \cup FilesWithFault \cup FilesOfOneColumn \cup FilesOfTypedColumn
        \cup FilesAtFraction \cup FilesOfNullLikeText \cup FilesOfNullLikeColumn
        \cup FilesOfDamagedText \cup FilesWithManyFindings
        \cup FilesWithLateFault \cup FilesOfRaggedLines \cup FilesOfSemicolons
        \cup FilesOfLongValue

-----------------------------------------------------------------------------
(* The callers of validate_csv_file *)

\* EnhancedCSVValidator.__init__
NewValidator ==
    [suspicious_values |-> suspicious_values, max_errors_shown |-> 3]

\* The statements of upload_dataset (app.py) after file.save that can raise:
\* writing the error report, db.session.commit, and building the response
\* after the commit (dataset.id, os.path.getsize, jsonify).
UploadFaultSites == {"write_report", "commit", "respond"}

\* no file at a path
NoFile == [absent |-> TRUE]

\* A request and the state of its handler once the uploaded file is saved
\* (app.py line 942, datasets.py line 66).  route: "app" is upload_dataset of
\* app.py, "blueprint" is upload_dataset of blueprints/datasets.py, "direct"
\* is a caller that uses the validator without an upload.  load is what
\* pd.read_json makes of a JSON file; a CSV file is read as the model of
\* pd.read_csv says.
Upload(route, ext, load, fault) ==
    [route |-> route, ext |-> ext, load |-> load, fault |-> fault,
     stored |-> route # "direct", report_file |-> NoFile,
     committed |-> FALSE, status |-> 0, errors |-> <<>>, warnings |-> <<>>,
     error_report_url |-> FALSE]

\* the files that every kind of request is made with
SmallFiles ==
    FilesWithoutRows \cup FilesWithFault
        \cup {f \in FilesByOutcome : \A e \in 3..Len(encodings) : f.outcome[e] = "ok"}

\* the content of an uploaded JSON file is not modelled: load stands for it
JsonFile == File(AllOk, <<>>, <<>>, None)

UploadsOf(f) ==
    {Upload("app", "csv", "csv", None)}
        \cup (IF f \in SmallFiles
              THEN {Upload("app", "csv", "csv", x) : x \in UploadFaultSites}
                       \cup {Upload("blueprint", "csv", "csv", x) :
                                x \in {None, "commit"}}
                       \cup {Upload("direct", "csv", "csv", None)}
              ELSE {})
        \cup (IF f = JsonFile
              THEN {Upload(r, "json", l, x) :
                        r \in {"app", "blueprint"},
                        l \in {"ok", "error", "empty"},
                        x \in {None, "commit", "respond"}}
              ELSE {})

\* app.py line 947, and the direct caller
Validates(u) == u.route = "direct" \/ (u.route = "app" /\ u.ext = "csv")

-----------------------------------------------------------------------------
(* validate_csv_file *)

NewResult ==
    [valid |-> TRUE, errors |-> <<>>, warnings |-> <<>>, summary |-> EmptySummary,
     detailed_report |-> EmptyReport]

Init ==
    /\ validator = NewValidator
    /\ calls = 1
    /\ first = NewResult
    /\ file \in Files
    /\ upload \in UploadsOf(file)
    /\ pc = IF Validates(upload) THEN "read" ELSE "skipped"
    /\ enc = 1
    /\ attempts = <<>>
    /\ df = NoDf
    /\ used_encoding = None
    /\ result = NewResult
    /\ ran = <<>>
    /\ raised = None
    /\ returned = "no"

\* (mutant) no break after a successful read
ReadOk_NoBreak ==
    /\ pc = "read" /\ enc <= Len(encodings)
    /\ ReadOutcome(file, enc) = "ok"
    /\ attempts' = Append(attempts, encodings[enc])
    /\ df' = ReadCsv(file)
    /\ used_encoding' = encodings[enc]
    /\ enc' = enc + 1
    /\ UNCHANGED <<validator, calls, first, upload, file, pc, result, ran, raised, returned>>

\* lines 32-36: pd.read_csv succeeds under the candidate; break
ReadOk ==
    /\ pc = "read" /\ enc <= Len(encodings)
    /\ ReadOutcome(file, enc) = "ok"
    /\ attempts' = Append(attempts, encodings[enc])
    /\ df' = ReadCsv(file)
    /\ used_encoding' = encodings[enc]
    /\ pc' = "check_df"
    /\ UNCHANGED <<validator, calls, first, upload, file, enc, result, ran, raised, returned>>

\* (mutant) a decode error recorded like any other error
ReadDecodeError_Recorded ==
    /\ pc = "read" /\ enc <= Len(encodings)
    /\ ReadOutcome(file, enc) = "decode"
    /\ attempts' = Append(attempts, encodings[enc])
    /\ result' = [result EXCEPT
                    !.errors = Append(@, FailedToRead(encodings[enc]))]
    /\ enc' = enc + 1
    /\ UNCHANGED <<validator, calls, first, upload, file, pc, df, used_encoding, ran, raised, returned>>

\* (mutant) the candidate is tried again after a decode error
ReadDecodeError_Retry ==
    /\ pc = "read" /\ enc <= Len(encodings)
    /\ ReadOutcome(file, enc) = "decode"
    /\ attempts' = Append(attempts, encodings[enc])
    /\ UNCHANGED <<validator, calls, first, upload, file, pc, enc, df, used_encoding, result, ran, raised, returned>>

\* lines 37-38: UnicodeDecodeError; continue
ReadDecodeError ==
    /\ pc = "read" /\ enc <= Len(encodings)
    /\ ReadOutcome(file, enc) = "decode"
    /\ attempts' = Append(attempts, encodings[enc])
    /\ enc' = enc + 1
    /\ UNCHANGED <<validator, calls, first, upload, file, pc, df, used_encoding, result, ran, raised, returned>>

\* (mutant) every exception of the read skipped without a finding
ReadOtherError_Silent ==
    /\ pc = "read" /\ enc <= Len(encodings)
    /\ ReadOutcome(file, enc) = "other"
    /\ attempts' = Append(attempts, encodings[enc])
    /\ enc' = enc + 1
    /\ UNCHANGED <<validator, calls, first, upload, file, pc, df, used_encoding, result, ran, raised, returned>>

\* (mutant) the first error that is no decode error ends the loop
ReadOtherError_Aborts ==
    /\ pc = "read" /\ enc <= Len(encodings)
    /\ ReadOutcome(file, enc) = "other"
    /\ attempts' = Append(attempts, encodings[enc])
    /\ result' = [result EXCEPT
                    !.errors = Append(@, FailedToRead(encodings[enc]))]
    /\ enc' = Len(encodings) + 1
    /\ UNCHANGED <<validator, calls, first, upload, file, pc, df, used_encoding, ran, raised, returned>>

\* lines 39-46: any other Exception; a critical finding, and the loop goes on
ReadOtherError ==
    /\ pc = "read" /\ enc <= Len(encodings)
    /\ ReadOutcome(file, enc) = "other"
    /\ attempts' = Append(attempts, encodings[enc])
    /\ result' = [result EXCEPT
                    !.errors = Append(@, FailedToRead(encodings[enc]))]
    /\ enc' = enc + 1
    /\ UNCHANGED <<validator, calls, first, upload, file, pc, df, used_encoding, ran, raised, returned>>

\* (mutant) a last read that replaces undecodable bytes, after the loop
ReadExhausted_FallbackRead ==
    /\ pc = "read" /\ enc > Len(encodings)
    /\ df' = IF file.header = <<>> THEN NoDf ELSE ReadCsv(file)
    /\ pc' = "check_df"
    /\ UNCHANGED <<validator, calls, first, upload, file, enc, attempts, used_encoding, result, ran, raised,
                   returned>>

\* the for loop ends without a break
ReadExhausted ==
    /\ pc = "read" /\ enc > Len(encodings)
    /\ pc' = "check_df"
    /\ UNCHANGED <<validator, calls, first, upload, file, enc, attempts, df, used_encoding, result, ran, raised,
                   returned>>

\* lines 48-57
DfIsNone ==
    /\ pc = "check_df" /\ df = NoDf
    /\ result' = [result EXCEPT !.valid = FALSE,
                                !.errors = Append(@, CouldNotRead)]
    /\ pc' = "done" /\ returned' = "result"
    /\ UNCHANGED <<validator, calls, first, upload, file, enc, attempts, df, used_encoding, ran, raised>>

\* lines 60-69
DfIsEmpty ==
    /\ pc = "check_df" /\ df # NoDf /\ IsEmptyDf(df)
    /\ result' = [result EXCEPT !.valid = FALSE,
                                !.errors = Append(@, CompletelyEmpty)]
    /\ pc' = "done" /\ returned' = "result"
    /\ UNCHANGED <<validator, calls, first, upload, file, enc, attempts, df, used_encoding, ran, raised>>

DfIsUsable ==
    /\ pc = "check_df" /\ df # NoDf /\ ~IsEmptyDf(df)
    /\ pc' = "summary"
    /\ UNCHANGED <<validator, calls, first, upload, file, enc, attempts, df, used_encoding, result, ran, raised,
                   returned>>

\* df.isnull().sum().sum()
MissingValues(d) ==
    Cardinality({rc \in (1..NRows(d)) \X (1..NCols(d)) :
                    d.rows[rc[1]][rc[2]] = NaN})

\* df.duplicated().sum(): the rows equal to an earlier row
DuplicateRows(d) ==
    Cardinality({r \in 1..NRows(d) : Earlier(d.rows, r) > 0})

\* lines 72-79
UpdateSummary ==
    /\ pc = "summary" /\ file.fault # "summary"
    /\ result' = [result EXCEPT !.summary =
                    [total_rows     |-> NRows(df),
                     total_columns  |-> NCols(df),
                     encoding_used  |-> used_encoding,
                     missing_values |-> MissingValues(df),
                     duplicate_rows |-> DuplicateRows(df)]]
    /\ pc' = "empty_rows"
    /\ UNCHANGED <<validator, calls, first, upload, file, enc, attempts, df, used_encoding, ran, raised,
                   returned>>

\* line 85
CheckDuplicateColumns ==
    /\ pc = "duplicate_columns" /\ file.fault # "duplicate_columns"
    /\ \E order \in SetOrders(Range(DuplicatedCols(df))) :
          result' = [result EXCEPT
                        !.errors = @ \o DuplicateColumnErrors(df, order)]
    /\ ran' = Append(ran, "duplicate_columns")
    /\ pc' = "type_consistency"
    /\ UNCHANGED <<validator, calls, first, upload, file, enc, attempts, df, used_encoding, raised, returned>>


\* The (label, value) pairs of df[col].dropna(), in row order.
NonNull(d, c) ==
    LET at == SetToSortedSeq({r \in 1..NRows(d) : d.rows[r][c] # NaN})
    IN [k \in 1..Len(at) |-> [idx |-> Idx(d, at[k]), value |-> d.rows[at[k]][c]]]

\* str_value.lower() in [v.lower() for v in self.suspicious_values]
IsNullLike(str_value) ==
    \E i \in 1..Len(validator.suspicious_values) :
        Lower(str_value) = Lower(validator.suspicious_values[i])

\* line 166: str_value of an item of the sample
StrValue(item) == Strip(Str(item.value))

\* lines 166-180 for one item of the sample: its label, its str_value and
\* what the pass counts it as.  A pass over a null-like value counts
\* nothing (line 170); every other pass counts its value as numeric, else
\* date, else string (lines 175-180).
Pass(item) ==
    Only({[idx |-> item.idx, str_value |-> str_value,
           kind |-> IF IsNullLike(str_value) THEN "null"
                    ELSE IF is_numeric(str_value) THEN "numeric"
                    ELSE IF is_date_like(str_value) THEN "date"
                    ELSE "string"] :
          str_value \in {StrValue(item)}})

\* the passes over the sample that count a value, in order
Typed(sample) ==
    Only({SelectSeq([k \in 1..Len(s) |-> Pass(s[k])],
                    LAMBDA p : p.kind # "null") :
          s \in {sample}})

\* lines 165-189: the counters and inconsistent_entries after the loop over
\* the sample.  A pass appends a string value when a number has been
\* counted by then and fewer than 5 entries are held (lines 183-189).
TypeLoop(sample) ==
    LET Loop(typed) ==
            LET passes == 1..Len(typed)
                numeric == {k \in passes : typed[k].kind = "numeric"}
                dates == {k \in passes : typed[k].kind = "date"}
                strings == {k \in passes : typed[k].kind = "string"}
                appended ==
                    Take(SetToSortedSeq({k \in strings :
                                            \E n \in numeric : n < k}),
                         InconsistentCap)
            IN [numeric_count |-> Cardinality(numeric),
                string_count  |-> Cardinality(strings),
                date_count    |-> Cardinality(dates),
                inconsistent_entries |->
                    [i \in 1..Len(appended) |->
                        [line  |-> typed[appended[i]].idx + 2,
                         value |-> typed[appended[i]].str_value]]]
    IN Only({Loop(typed) : typed \in {Typed(sample)}})

\* The power of two p with p < m <= 2p, for an integer m > 1.
PowerOfTwoBelow(m) ==
    CHOOSE p \in {2 ^ k : k \in 0..20} : p < m /\ m <= 2 * p

\* total_typed * 0.7 is a binary64 product.  0.7 is stored as
\* 0.7 - 2^-52/5, so the exact product is below 7t/10 by t * 2^-52 / 5.
\* When 7t/10 is an integer m, the product rounds to the double below m
\* exactly when that gap is more than half the spacing 2^(k-52) of the
\* doubles below m (2^k < m <= 2^(k+1)): when 2t > 5 * 2^k.  In every other
\* case the product compares with an integer as 7t/10 does.
ProductRoundsBelow(t) ==
    /\ t > 0
    /\ (7 * t) % 10 = 0
    /\ 2 * t > 5 * PowerOfTwoBelow((7 * t) \div 10)

\* line 194: numeric_count > total_typed * 0.7
ExceedsFraction(numeric_count, total_typed) ==
    IF ProductRoundsBelow(total_typed)
    THEN 10 * numeric_count >= 7 * total_typed
    ELSE 10 * numeric_count > 7 * total_typed

\* lines 153-203 for column c: what is appended to result.errors
TypeErrorsOfColumn(d, c) ==
    LET Errors(acc) ==
            LET total_typed ==
                    acc.numeric_count + acc.string_count + acc.date_count
                shown == Take(acc.inconsistent_entries, TypeShownCap)
            IN IF /\ total_typed > MinTyped
                  /\ ExceedsFraction(acc.numeric_count, total_typed)
                  /\ acc.string_count > 0
               THEN [k \in 1..Len(shown) |->
                       Finding(shown[k].line, d.columns[c],
                               Msg("Non-numeric value in predominantly numeric column",
                                   shown[k].value),
                               shown[k].value, "error")]
               ELSE <<>>
    IN Only({Errors(acc) :
                acc \in {TypeLoop(Take(NonNull(d, c), TypeSampleCap))}})

\* (mutant) the concatenation of f[n], ..., f[1]
RECURSIVE Concat_Reversed(_, _)
Concat_Reversed(f, n) ==
    IF n = 0 THEN <<>> ELSE f[n] \o Concat_Reversed(f, n - 1)

\* The concatenation of f[1], ..., f[n].
RECURSIVE Concat(_, _)
Concat(f, n) == IF n = 0 THEN <<>> ELSE Concat(f, n - 1) \o f[n]

\* _check_data_type_consistency: what it appends to result.errors
TypeConsistencyErrors(d) ==
    Concat([c \in 1..NCols(d) |-> TypeErrorsOfColumn(d, c)], NCols(d))

\* lines 209-210 for column c: the rows whose value, stripped, is one of
\* suspicious_values, in row order
SuspiciousRows(d, c) ==
    SetToSortedSeq(
        {r \in 1..NRows(d) :
            \E str_value \in {Strip(Str(d.rows[r][c]))} :
                \E i \in 1..Len(validator.suspicious_values) :
                    str_value = validator.suspicious_values[i]})

\* lines 212-222: the warnings for the rows found
SuspiciousFound(d, c, found) ==
    [k \in 1..Len(found) |->
        Warning(Idx(d, found[k]) + 2, d.columns[c],
                Msg("Suspicious null-like value found",
                    Str(d.rows[found[k]][c])),
                Str(d.rows[found[k]][c]))]

\* (mutant) a warning for every matching cell of the column
SuspiciousOfColumn_Uncapped(d, c) ==
    Only({SuspiciousFound(d, c, found) : found \in {SuspiciousRows(d, c)}})

\* lines 208-224 for column c
SuspiciousOfColumn(d, c) ==
    Only({SuspiciousFound(d, c, found) :
            found \in {Take(SuspiciousRows(d, c), SuspiciousCap)}})

\* _check_suspicious_values: what it appends to result.warnings
SuspiciousWarnings(d) ==
    Concat([c \in 1..NCols(d) |-> SuspiciousOfColumn(d, c)], NCols(d))

\* (mutant) the whole text as the value
Preview_Whole(str_value) == str_value

\* line 236
Preview(str_value) ==
    IF Len(str_value) > ValuePreviewLen
    THEN SubSeq(str_value, 1, ValuePreviewLen) \o <<".", ".", ".">>
    ELSE str_value

\* line 231.  The two encoded lengths differ for no text: a text that
\* errors='ignore' would shorten makes the first encode raise.
HasEncodingIssue(str_value) ==
    \E i \in 1..Len(str_value) : str_value[i] = ReplacementChar

\* lines 229-238 for column c
EncodingIssueOfColumn(d, c) ==
    LET hits == {r \in 1..NRows(d) :
                    r <= EncodingScanCap /\ HasEncodingIssue(Str(d.rows[r][c]))}
    IN IF hits = {} THEN <<>>
       ELSE LET r == CHOOSE x \in hits : \A y \in hits : x <= y
            IN <<Warning(Idx(d, r) + 2, d.columns[c],
                   Msg("Possible encoding issue or special characters detected",
                       <<>>),
                   Preview(Str(d.rows[r][c])))>>

\* _check_encoding_issues: what it appends to result.warnings
EncodingIssueWarnings(d) ==
    Concat([c \in 1..NCols(d) |-> EncodingIssueOfColumn(d, c)], NCols(d))

\* The checker called at the step computes idx + 2: it has a row to report
\* (lines 121, 186, 213, 233).  The type check computes it for every entry
\* it collects, whether or not the column is reported in the end.
ComputesLine(site, d) ==
    CASE site = "empty_rows" -> EmptyRowIndices(d) # <<>>
      [] site = "type_consistency" ->
            \E c \in 1..NCols(d) :
                TypeLoop(Take(NonNull(d, c), TypeSampleCap)).inconsistent_entries
                    # <<>>
      [] site = "suspicious_values" -> SuspiciousWarnings(d) # <<>>
      [] site = "encoding_issues" -> EncodingIssueWarnings(d) # <<>>
      [] OTHER -> FALSE

\* idx + 2 raises TypeError: the label is a string or a tuple
LabelError(site, d) == ~IntegerIndex(d) /\ ComputesLine(site, d)

\* A statement of the try block raises: control goes to line 104.  Nothing
\* was appended by the checker before: it raises at its first idx + 2.
Raise(site) ==
    /\ pc = site
    /\ file.fault = site \/ LabelError(site, df)
    /\ raised' = site
    /\ pc' = "except"
    /\ ran' = IF site \in {"summary", "report"} THEN ran ELSE Append(ran, site)
    /\ UNCHANGED <<validator, calls, first, upload, file, enc, attempts, df, used_encoding, result, returned>>

Raises == \E site \in FaultSites : Raise(site)

\* line 82
CheckEmptyRows ==
    /\ pc = "empty_rows" /\ file.fault # "empty_rows"
    /\ ~LabelError("empty_rows", df)
    /\ result' = [result EXCEPT
                    !.errors   = @ \o EmptyRowErrors(df),
                    !.warnings = @ \o EmptyRowWarnings(df)]
    /\ ran' = Append(ran, "empty_rows")
    /\ pc' = "duplicate_columns"
    /\ UNCHANGED <<validator, calls, first, upload, file, enc, attempts, df, used_encoding, raised, returned>>

\* line 88
CheckTypeConsistency ==
    /\ pc = "type_consistency" /\ file.fault # "type_consistency"
    /\ ~LabelError("type_consistency", df)
    /\ result' = [result EXCEPT !.errors = @ \o TypeConsistencyErrors(df)]
    /\ ran' = Append(ran, "type_consistency")
    /\ pc' = "suspicious_values"
    /\ UNCHANGED <<validator, calls, first, upload, file, enc, attempts, df, used_encoding, raised, returned>>

\* line 91
CheckSuspiciousValues ==
    /\ pc = "suspicious_values" /\ file.fault # "suspicious_values"
    /\ ~LabelError("suspicious_values", df)
    /\ result' = [result EXCEPT !.warnings = @ \o SuspiciousWarnings(df)]
    /\ ran' = Append(ran, "suspicious_values")
    /\ pc' = "encoding_issues"
    /\ UNCHANGED <<validator, calls, first, upload, file, enc, attempts, df, used_encoding, raised, returned>>

\* line 94
CheckEncodingIssues ==
    /\ pc = "encoding_issues" /\ file.fault # "encoding_issues"
    /\ ~LabelError("encoding_issues", df)
    /\ result' = [result EXCEPT !.warnings = @ \o EncodingIssueWarnings(df)]
    /\ ran' = Append(ran, "encoding_issues")
    /\ pc' = "report"
    /\ UNCHANGED <<validator, calls, first, upload, file, enc, attempts, df, used_encoding, raised, returned>>

\* the filename argument of validate_csv_file
Filenames == {<<"d", ".", "c", "s", "v">>}

\* the values datetime.now().strftime(...) can have at line 262
Clock ==
    {<<"2", "0", "2", "6", "-", "0", "1", "-", "0", "1", " ",
       "0", "0", ":", "0", "0", ":", "0", "0">>,
     <<"2", "0", "2", "6", "-", "0", "1", "-", "0", "1", " ",
       "0", "0", ":", "0", "0", ":", "0", "1">>}

\* format(n, 'd'): the decimal digits of n, as a text of one piece
Decimal(n) == <<ToString(n)>>

\* format(n, ','): the digits of n in groups of three (n below a million)
Grouped(n) ==
    IF n < 1000 THEN Decimal(n)
    ELSE LET low == n % 1000
         IN Decimal(n \div 1000) \o <<",">>
            \o (IF low < 10 THEN <<"0", "0">>
                ELSE IF low < 100 THEN <<"0">> ELSE <<>>)
            \o Decimal(low)

\* A line of the report: the fixed text of its format string and the
\* texts formatted into it.
Line(kind, text, args) == [kind |-> kind, text |-> text, args |-> args]

BlankLine == Line("blank", "", <<>>)

\* result.summary.get(key, default)
SummaryGet(summary, key, default) ==
    IF key \in DOMAIN summary THEN summary[key] ELSE default

\* lines 260-263
HeaderLines(filename, now) ==
    <<Line("title", "CSV Validation Report for:", <<filename>>),
      Line("generated", "Generated on:", <<now>>),
      Line("rule", "=", <<Decimal(60)>>),
      BlankLine>>

\* lines 264-275.  The File Size line shows file_size_bytes, which the
\* summary of the model leaves out.
SummaryLines(res) ==
    <<Line("heading", "SUMMARY:", <<>>),
      Line("summary", "File Status:",
           <<IF res.valid THEN <<"PASSED">> ELSE <<"FAILED">>>>),
      Line("summary", "Total Rows:",
           <<Grouped(SummaryGet(res.summary, "total_rows", 0))>>),
      Line("summary", "Total Columns:",
           <<Decimal(SummaryGet(res.summary, "total_columns", 0))>>),
      Line("summary", "Encoding Used:",
           <<<<SummaryGet(res.summary, "encoding_used", "Unknown")>>>>),
      Line("summary", "Missing Values:",
           <<Grouped(SummaryGet(res.summary, "missing_values", 0))>>),
      Line("summary", "Duplicate Rows:",
           <<Grouped(SummaryGet(res.summary, "duplicate_rows", 0))>>),
      Line("summary", "Critical Errors:",
           <<Decimal(Len(Criticals(res.errors)))>>),
      Line("summary", "Errors:",
           <<Decimal(Len(SelectSeq(res.errors,
                                   LAMBDA e : e.severity = "error")))>>),
      Line("summary", "Warnings:", <<Decimal(Len(res.warnings))>>),
      BlankLine>>

\* lines 285-289: the lines of the i-th finding of a section
FindingLines(i, e) ==
    <<Line("entry", "Line, Column", <<Decimal(i), Decimal(e.line), e.column>>),
      Line("message", e.error.text, <<e.error.arg>>)>>
    \o (IF e.value # <<>> THEN <<Line("value", "Value:", <<e.value>>)>>
        ELSE <<>>)
    \o <<BlankLine>>

\* (mutant) the section is written also when it has no finding
FindingSection_Always(heading, width, findings) ==
    <<Line("heading", heading, <<>>), Line("rule", "-", <<Decimal(width)>>)>>
    \o Concat([i \in 1..Len(findings) |-> FindingLines(i, findings[i])],
              Len(findings))

\* lines 279-289, 293-303, 306-316: a section of findings
FindingSection(heading, width, findings) ==
    IF findings = <<>> THEN <<>>
    ELSE <<Line("heading", heading, <<>>),
           Line("rule", "-", <<Decimal(width)>>)>>
         \o Concat([i \in 1..Len(findings) |-> FindingLines(i, findings[i])],
                   Len(findings))

\* lines 319-328
RecommendationLines ==
    <<Line("heading", "RECOMMENDATIONS:", <<>>),
      Line("advice", "- Fix all critical errors before proceeding", <<>>),
      Line("advice",
           "- Review and address regular errors for better data quality",
           <<>>),
      Line("advice", "- Consider warnings for optimal data processing", <<>>),
      Line("advice", "- Ensure consistent data types within columns", <<>>),
      Line("advice", "- Remove or properly handle missing/null values", <<>>),
      Line("advice", "- Use consistent date formats if applicable", <<>>),
      Line("advice",
           "- Avoid special characters that might cause encoding issues",
           <<>>)>>

\* _generate_detailed_report, lines 258-332: the lines joined at line 332
Report(res, filename, now) ==
    [lines |->
        HeaderLines(filename, now)
        \o SummaryLines(res)
        \o FindingSection("CRITICAL ERRORS (Must be fixed):", 40,
                          Criticals(res.errors))
        \o FindingSection("ERRORS (Should be fixed):", 30,
                          SelectSeq(res.errors,
                                    LAMBDA e : e.severity = "error"))
        \o FindingSection("WARNINGS (Recommended to review):", 35,
                          res.warnings)
        \o RecommendationLines]

\* line 97
GenerateReport ==
    /\ pc = "report" /\ file.fault # "report"
    /\ \E filename \in Filenames, now \in Clock :
          result' = [result EXCEPT
                        !.detailed_report = Report(result, filename, now)]
    /\ pc' = "final_status"
    /\ UNCHANGED <<validator, calls, first, upload, file, enc, attempts, df, used_encoding, ran, raised,
                   returned>>

\* lines 100-102
FinalStatus ==
    /\ pc = "final_status"
    /\ result' = [result EXCEPT !.valid = (Len(Criticals(result.errors)) = 0)]
    /\ pc' = "done" /\ returned' = "result"
    /\ UNCHANGED <<validator, calls, first, upload, file, enc, attempts, df, used_encoding, ran, raised>>

\* (mutant) no except clause: the exception leaves the call
HandleException_Escapes ==
    /\ pc = "except"
    /\ pc' = "done" /\ returned' = "exception"
    /\ UNCHANGED <<validator, calls, first, upload, file, enc, attempts, df, used_encoding, result, ran, raised>>

\* lines 104-113: the except clause of the outer try
HandleException ==
    /\ pc = "except"
    /\ result' = [result EXCEPT !.valid = FALSE,
                                !.errors = Append(@, UnexpectedError)]
    /\ pc' = "done" /\ returned' = "result"
    /\ UNCHANGED <<validator, calls, first, upload, file, enc, attempts, df, used_encoding, ran, raised>>

-----------------------------------------------------------------------------
(* upload_dataset *)

\* app.py lines 975-990: what reloading the stored file gives
Reloaded ==
    IF upload.ext = "csv"
    THEN IF ReadOutcome(file, 1) # "ok" THEN "error"
         ELSE IF IsEmptyDf(ReadCsv(file)) THEN "empty" ELSE "ok"
    ELSE upload.load

\* app.py lines 945-950: the handler is at the validation gate with a verdict
AtGate ==
    /\ upload.route = "app" /\ upload.status = 0
    /\ upload.ext = "csv" /\ returned = "result"

\* app.py line 975: the handler is past the validation gate
PastGate ==
    /\ upload.route = "app" /\ upload.status = 0
    /\ upload.ext = "csv" => returned = "result" /\ result.valid

\* app.py lines 951-973
UploadRejected ==
    /\ AtGate /\ ~result.valid
    /\ upload.fault # "write_report"
    /\ upload' = [upload EXCEPT !.report_file = result.detailed_report,
                                !.stored = FALSE,
                                !.status = 422,
                                !.errors = Take(result.errors, 3),
                                !.warnings = Take(result.warnings, 5),
                                !.error_report_url = TRUE]
    /\ UNCHANGED <<validator, calls, first, file, pc, enc, attempts, df,
                   used_encoding, result, ran, raised, returned>>

\* app.py lines 975-986
UploadUnprocessable ==
    /\ PastGate /\ Reloaded = "error"
    /\ upload' = [upload EXCEPT !.stored = FALSE, !.status = 400]
    /\ UNCHANGED <<validator, calls, first, file, pc, enc, attempts, df,
                   used_encoding, result, ran, raised, returned>>

\* app.py lines 988-990
UploadEmpty ==
    /\ PastGate /\ Reloaded = "empty"
    /\ upload' = [upload EXCEPT !.stored = FALSE, !.status = 400]
    /\ UNCHANGED <<validator, calls, first, file, pc, enc, attempts, df,
                   used_encoding, result, ran, raised, returned>>

\* app.py lines 992-1030
UploadCommitted ==
    /\ PastGate /\ Reloaded = "ok"
    /\ upload.fault = None
    /\ upload' = [upload EXCEPT !.committed = TRUE,
                                !.status = 201,
                                !.warnings = IF upload.ext = "csv"
                                             THEN Take(result.warnings, 5)
                                             ELSE <<>>]
    /\ UNCHANGED <<validator, calls, first, file, pc, enc, attempts, df,
                   used_encoding, result, ran, raised, returned>>

\* app.py lines 1032-1037: a statement of the try block raised.  The stored
\* file is removed; db.session.rollback does not undo a commit already made.
UploadException ==
    /\ \/ AtGate /\ ~result.valid /\ upload.fault = "write_report"
       \/ PastGate /\ Reloaded = "ok" /\ upload.fault \in {"commit", "respond"}
    /\ upload' = [upload EXCEPT !.stored = FALSE,
                                !.committed = (upload.fault = "respond"),
                                !.status = 500]
    /\ UNCHANGED <<validator, calls, first, file, pc, enc, attempts, df,
                   used_encoding, result, ran, raised, returned>>

\* datasets.py lines 45-99: the file is stored and recorded; a CSV file that
\* pd.read_csv cannot read is recorded without its dimensions (lines 73-81)
BlueprintCommitted ==
    /\ upload.route = "blueprint" /\ upload.status = 0
    /\ upload.fault = None
    /\ upload' = [upload EXCEPT !.committed = TRUE, !.status = 201]
    /\ UNCHANGED <<validator, calls, first, file, pc, enc, attempts, df,
                   used_encoding, result, ran, raised, returned>>

\* datasets.py lines 103-106: rollback; the stored file stays
BlueprintException ==
    /\ upload.route = "blueprint" /\ upload.status = 0
    /\ upload.fault # None
    /\ upload' = [upload EXCEPT !.status = 500]
    /\ UNCHANGED <<validator, calls, first, file, pc, enc, attempts, df,
                   used_encoding, result, ran, raised, returned>>

\* (mutant) the second call goes on with the result of the first
CallAgain_SameResult ==
    /\ upload.route = "direct" /\ returned = "result" /\ calls < MaxCalls
    /\ calls' = calls + 1
    /\ first' = IF calls = 1 THEN result ELSE first
    /\ pc' = "read" /\ enc' = 1 /\ attempts' = <<>> /\ df' = NoDf
    /\ used_encoding' = None /\ ran' = <<>> /\ raised' = None
    /\ returned' = "no"
    /\ UNCHANGED <<validator, upload, file, result>>

\* The direct caller calls validate_csv_file once more on the same
\* validator, for the same file: line 24 makes a new CSVValidationResult,
\* lines 29-31 set the locals anew.
CallAgain ==
    /\ upload.route = "direct" /\ returned = "result" /\ calls < MaxCalls
    /\ calls' = calls + 1
    /\ first' = IF calls = 1 THEN result ELSE first
    /\ result' = NewResult
    /\ pc' = "read" /\ enc' = 1 /\ attempts' = <<>> /\ df' = NoDf
    /\ used_encoding' = None /\ ran' = <<>> /\ raised' = None
    /\ returned' = "no"
    /\ UNCHANGED <<validator, upload, file>>

Next ==
    \/ ReadOk
    \/ ReadDecodeError
    \/ ReadOtherError
    \/ ReadExhausted
    \/ DfIsNone
    \/ DfIsEmpty
    \/ DfIsUsable
    \/ Raises
    \/ UpdateSummary
    \/ CheckEmptyRows
    \/ CheckDuplicateColumns
    \/ CheckTypeConsistency
    \/ CheckSuspiciousValues
    \/ CheckEncodingIssues
    \/ GenerateReport
    \/ FinalStatus
    \/ HandleException
    \/ UploadRejected
    \/ UploadUnprocessable
    \/ UploadEmpty
    \/ UploadCommitted
    \/ UploadException
    \/ BlueprintCommitted
    \/ BlueprintException
    \/ CallAgain

Spec == Init /\ [][Next]_vars

\* The requests made with the files that every kind of request is made
\* with.
FairInit == Init /\ file \in SmallFiles

\* The call and the handlers are sequential code: a statement that can run
\* does run.
FairSpec == FairInit /\ [][Next]_vars /\ WF_vars(Next)

-----------------------------------------------------------------------------
(* Vocabulary of the properties *)

Done == returned = "result"

HasCritical(errors) ==
    \E i \in 1..Len(errors) : errors[i].severity = "critical"

Checkers ==
    <<"empty_rows", "duplicate_columns", "type_consistency",
      "suspicious_values", "encoding_issues">>

CheckerIndex(name) == CHOOSE k \in 1..Len(Checkers) : Checkers[k] = name

IsChecker(name) == \E k \in 1..Len(Checkers) : Checkers[k] = name

\* the candidates under which the file can be read
OkCandidates(f) ==
    {e \in 1..Len(encodings) : ReadOutcome(f, e) = "ok"}

FirstOk(f) == CHOOSE e \in OkCandidates(f) : \A o \in OkCandidates(f) : e <= o

\* the findings of the given message text, in list order
WithText(findings, text) ==
    SelectSeq(findings, LAMBDA e : e.error.text = text)

-----------------------------------------------------------------------------
(* C1: on every return path of validate_csv_file the returned result has   *)
(* valid = TRUE exactly when result.errors holds no finding of severity    *)
(* 'critical'.                                                             *)
C1_ValidIffNoCritical ==
    Done => (result.valid <=> ~HasCritical(result.errors))

\* a file with findings of severity 'error' only is returned as valid
C1_Witness ==
    /\ Done /\ result.valid
    /\ \E i \in 1..Len(result.errors) : result.errors[i].severity = "error"

(* C2: a fault raised inside a checker is converted into a Critical        *)
(* finding naming that checker, and every checker after it in the pipeline *)
(* is still run.                                                           *)
C2_FaultIsolation ==
    (Done /\ IsChecker(raised)) =>
        /\ \A k \in 1..Len(Checkers) :
              k > CheckerIndex(raised) =>
                  \E j \in 1..Len(ran) : ran[j] = Checkers[k]
        /\ \E i \in 1..Len(result.errors) :
              /\ result.errors[i].severity = "critical"
              /\ result.errors[i].error.arg = <<raised>>

(* C3: no exception leaves validate_csv_file: the call ends by returning   *)
(* the result, and the result is invalid and holds a Critical finding      *)
(* whenever a read failed with an error other than a decode error, no      *)
(* candidate could be read, or a step of the try block raised.             *)
C3_FaultOccurred ==
    \/ raised # None
    \/ used_encoding = None
    \/ WithText(result.errors, "Failed to read CSV with") # <<>>

C3_NoFaultEscapes ==
    /\ returned # "exception"
    /\ pc = "done" => Done
    /\ (Done /\ C3_FaultOccurred) =>
          ~result.valid /\ HasCritical(result.errors)

\* a checker raised after the file was read, and the call returned
C3_Witness ==
    /\ Done /\ IsChecker(raised) /\ used_encoding # None
    /\ ~result.valid


\* the candidates of the given outcome among the first n, in list order
CandidatesOf(f, outcome, n) ==
    SetToSortedSeq({e \in 1..n : ReadOutcome(f, e) = outcome})

\* one 'Failed to read CSV with' finding per given candidate
ReadFailures(candidates) ==
    [k \in 1..Len(candidates) |->
        [line |-> 0, column |-> <<>>,
         error |-> [text |-> "Failed to read CSV with",
                    arg |-> <<encodings[candidates[k]]>>],
         value |-> <<>>, severity |-> "critical"]]

C5_Original ==
    (Done /\ OkCandidates(file) = {}) =>
        /\ Cardinality({i \in 1..Len(result.errors) :
                          result.errors[i].severity = "critical"}) = 1
        /\ Len(WithText(result.errors,
              "Could not read file with any supported encoding")) = 1
        /\ ran = <<>>

(* C5 (amended): when every candidate fails, result.errors is one Critical *)
(* 'Failed to read CSV with <encoding>' finding for each candidate that    *)
(* failed with an error other than a decode error, in candidate order,     *)
(* followed by exactly one Critical 'could not read file with any          *)
(* supported encoding' finding; the result is invalid and no checker is    *)
(* run.                                                                    *)
C5_AllCandidatesFail ==
    (Done /\ OkCandidates(file) = {}) =>
        /\ result.errors =
              ReadFailures(CandidatesOf(file, "other", Len(encodings)))
                \o << [line |-> 0, column |-> <<>>,
                       error |-> [text |-> "Could not read file with any supported encoding",
                                  arg |-> <<>>],
                       value |-> <<>>, severity |-> "critical"] >>
        /\ ~result.valid
        /\ ran = <<>>

\* every candidate failed, some with a decode error and some with another
C5_Witness ==
    /\ Done /\ OkCandidates(file) = {}
    /\ \E e \in 1..Len(encodings) : ReadOutcome(file, e) = "decode"
    /\ \E e \in 1..Len(encodings) : ReadOutcome(file, e) = "other"

(* C6: a zero-byte file is read to an empty table, and the returned result *)
(* holds a Critical 'empty file' finding and summary.total_rows = 0.       *)
C6_ZeroByteFile ==
    (Done /\ file.header = <<>> /\ file.rows = <<>>) =>
        /\ df # NoDf
        /\ Len(WithText(result.errors, "CSV file is completely empty")) = 1
        /\ "total_rows" \in DOMAIN result.summary
        /\ result.summary.total_rows = 0

(* C7 as claimed: every failed attempt of the trial loop, decode error or  *)
(* not, leaves a finding in the result.                                    *)
C7_Original ==
    \A k \in 1..Len(attempts) :
        ReadOutcome(file, k) # "ok" =>
            \E i \in 1..Len(result.errors) :
                result.errors[i].error.arg = <<encodings[k]>>

(* C7 (amended): every attempt that fails with an error other than a       *)
(* decode error leaves a Critical finding naming its encoding, in attempt  *)
(* order; an attempt that fails with a decode error leaves no finding.     *)
C7_ReadFailuresRecorded ==
    WithText(result.errors, "Failed to read CSV with")
        = ReadFailures(CandidatesOf(file, "other", Len(attempts)))

\* a decode error and another error have both happened
C7_Witness ==
    /\ Done
    /\ \E k \in 1..Len(attempts) : ReadOutcome(file, k) = "decode"
    /\ \E k \in 1..Len(attempts) : ReadOutcome(file, k) = "other"

(* C8 as claimed: once a read failure is recorded as a Critical finding,   *)
(* no checker runs in the call.                                            *)
C8_Original ==
    WithText(result.errors, "Failed to read CSV with") # <<>> => ran = <<>>

(* C8 (amended): when a read failure is recorded as a Critical finding and *)
(* no candidate has been read successfully, no checker runs in the call.   *)
C8_NoTableNoCheckers ==
    (/\ WithText(result.errors, "Failed to read CSV with") # <<>>
     /\ used_encoding = None)
        => ran = <<>>

\* the call has returned with failures recorded and nothing read
C8_Witness ==
    /\ Done /\ used_encoding = None /\ file.header # <<>>
    /\ WithText(result.errors, "Failed to read CSV with") # <<>>

\* the names that stand more than once in the header line
RepeatedNames(f) ==
    {f.header[i] : i \in {j \in 1..Len(f.header) : Earlier(f.header, j) > 0}}

(* C9: for a header that holds a name more than once, the result holds one *)
(* Critical duplicate-column finding per distinct repeated name, and the   *)
(* file is invalid (header a,b,a: one finding).                            *)
C9_DuplicateColumns ==
    (Done /\ raised = None /\ result.detailed_report # EmptyReport) =>
        /\ Len(WithText(result.errors, "Duplicate column name detected"))
              = Cardinality(RepeatedNames(file))
        /\ RepeatedNames(file) # {} => ~result.valid

\* the empty rows of the DataFrame, as 1-based positions
EmptyRowSet == {r \in 1..Len(df.rows) : \A c \in 1..Len(df.columns) : df.rows[r][c] = NaN}

EmptyRowChecked == Len(ran) >= 1 /\ raised # "empty_rows"

\* the empty-row errors stand for the first min(n, 10) empty rows, in row
\* order, each with the line of its row (idx + 2)
C10_ErrorsPart ==
    LET n == Cardinality(EmptyRowSet)
        rows == SetToSortedSeq(EmptyRowSet)
        errs == WithText(result.errors, "Completely empty row detected")
    IN /\ Len(errs) = IF n < 10 THEN n ELSE 10
       /\ \A k \in 1..Len(errs) :
             /\ errs[k].severity = "error"
             /\ errs[k].line = Idx(df, rows[k]) + 2

-----------------------------------------------------------------------------
(* The type-consistency check *)

TypeChecked == Len(ran) >= 3 /\ raised # "type_consistency"

\* the rows of column c that the check classifies: not null, and not a
\* null-like text
ClassifiedRows(c) ==
    {r \in 1..Len(df.rows) :
        /\ df.rows[r][c] # NaN
        /\ ~IsNullLike(Strip(df.rows[r][c]))}

NumericRows(c) == {r \in ClassifiedRows(c) : is_numeric(Strip(df.rows[r][c]))}

TextualRows(c) ==
    {r \in ClassifiedRows(c) :
        /\ ~is_numeric(Strip(df.rows[r][c]))
        /\ ~is_date_like(Strip(df.rows[r][c]))}

\* more than 10 classified values, more than 0.7 of them numeric, and a
\* textual value
MostlyNumeric(c) ==
    /\ Cardinality(ClassifiedRows(c)) > 10
    /\ 10 * Cardinality(NumericRows(c)) > 7 * Cardinality(ClassifiedRows(c))
    /\ TextualRows(c) # {}

\* the findings of the type check for column c
TypeFindings(c) ==
    SelectSeq(result.errors,
              LAMBDA e : /\ e.error.text = "Non-numeric value in predominantly numeric column"
                         /\ e.column = df.columns[c])

(* C11: for every column with more than 10 classified values, a numeric    *)
(* fraction above 0.7 and at least one textual value, the type check emits *)
(* at least one and at most 3 Error findings, each citing a textual value  *)
(* of the column, wherever the textual values stand in the column.         *)
C11_MostlyNumericFlagged ==
    TypeChecked =>
        \A c \in 1..Len(df.columns) :
            MostlyNumeric(c) =>
                /\ Len(TypeFindings(c)) >= 1
                /\ Len(TypeFindings(c)) <= 3
                /\ \A k \in 1..Len(TypeFindings(c)) :
                      /\ TypeFindings(c)[k].severity = "error"
                      /\ \E r \in TextualRows(c) :
                            TypeFindings(c)[k].value = Strip(df.rows[r][c])


\* the state right after _check_data_type_consistency has returned
AfterTypeCheck == pc = "suspicious_values"

(* C12: the type check emits no finding for a column that has 10 or fewer  *)
(* classified values, or whose numeric count is not more than 0.7 of the   *)
(* classified count, or that has no textual value.                         *)
C12_NotFlagged ==
    AfterTypeCheck =>
        \A c \in 1..Len(df.columns) :
            ~MostlyNumeric(c) => TypeFindings(c) = <<>>


-----------------------------------------------------------------------------
(* The suspicious-value check *)

\* the state right after _check_suspicious_values has returned
AfterSuspiciousCheck == pc = "encoding_issues"

\* the rows of column c whose trimmed text is a lexicon token in some
\* letter case
NullLikeRows(c) ==
    {r \in 1..Len(df.rows) : IsNullLike(Strip(Str(df.rows[r][c])))}

\* the warnings of the check for column c
SuspiciousFindings(c) ==
    SelectSeq(result.warnings,
              LAMBDA e : /\ e.error.text = "Suspicious null-like value found"
                         /\ e.column = df.columns[c])

(* C13: matching against the null-like lexicon is case-insensitive: a cell *)
(* whose trimmed value is a lexicon token in any letter case (N/A, n/a,    *)
(* N/a, n/A, ...) yields a Warning of the suspicious-value check; here for *)
(* each of the first 3 such cells of a column.                             *)
C13_CaseInsensitive ==
    AfterSuspiciousCheck =>
        \A c \in 1..Len(df.columns) :
            \A r \in NullLikeRows(c) :
                Cardinality({q \in NullLikeRows(c) : q < r}) < 3 =>
                    \E k \in 1..Len(SuspiciousFindings(c)) :
                        SuspiciousFindings(c)[k].line = Idx(df, r) + 2


\* the step of validate_csv_file that is the suspicious-value check
SuspiciousCheckStep == pc = "suspicious_values" /\ pc' = "encoding_issues"

\* the rows of column c whose cell the check matches (line 210), in row
\* order
MatchingRows(c) ==
    SetToSortedSeq({r \in 1..Len(df.rows) :
                      \E i \in 1..Len(suspicious_values) :
                          Strip(Str(df.rows[r][c])) = suspicious_values[i]})

(* C14: the suspicious-value check leaves result.errors as it is and only  *)
(* appends to result.warnings: for each column at most 3 warnings, those   *)
(* of the first 3 matching cells of the column in row order.               *)
C14_WarningsOnlyCapped ==
    [][SuspiciousCheckStep =>
        LET before == Len(result.warnings)
            added == SubSeq(result'.warnings, before + 1,
                            Len(result'.warnings))
        IN /\ result'.errors = result.errors
           /\ SubSeq(result'.warnings, 1, before) = result.warnings
           /\ \A k \in 1..Len(added) :
                 /\ added[k].severity = None
                 /\ added[k].error.text = "Suspicious null-like value found"
                 /\ \E c \in 1..Len(df.columns) :
                       added[k].column = df.columns[c]
           /\ \A c \in 1..Len(df.columns) :
                 LET of_c == SelectSeq(added,
                                 LAMBDA e : e.column = df.columns[c])
                     rows == MatchingRows(c)
                 IN /\ Len(of_c) = IF Len(rows) < 3 THEN Len(rows) ELSE 3
                    /\ \A k \in 1..Len(of_c) :
                          /\ of_c[k].line = Idx(df, rows[k]) + 2
                          /\ of_c[k].value = Str(df.rows[rows[k]][c])]_vars

\* the check has passed over a column with more than 3 matching cells,
\* a cell that does not match standing between them
C14_Witness ==
    /\ AfterSuspiciousCheck
    /\ \E c \in 1..Len(df.columns) :
          /\ Len(MatchingRows(c)) > 3
          /\ MatchingRows(c)[4] > MatchingRows(c)[1] + 3
          /\ Len(SuspiciousFindings(c)) = 3


-----------------------------------------------------------------------------
(* The encoding-artifact check *)

\* the step of validate_csv_file that is the encoding-artifact check
EncodingCheckStep == pc = "encoding_issues" /\ pc' = "report"

\* the rows of column c whose cell holds the character U+FFFD, in row order
DamagedRows(c) ==
    SetToSortedSeq({r \in 1..Len(df.rows) :
                      \E i \in 1..Len(Str(df.rows[r][c])) :
                          Str(df.rows[r][c])[i] = ReplacementChar})

(* C15: the encoding-artifact check emits at most one Warning per column,  *)
(* for the first affected cell among the first 100 rows of the column;     *)
(* cells in rows after the first 100 produce no finding; the finding's     *)
(* value is the cell text, cut to 50 characters and followed by '...'      *)
(* when the text is longer than 50 characters.                             *)
C15_OnePerColumnInScan ==
    [][EncodingCheckStep =>
        LET before == Len(result.warnings)
            added == SubSeq(result'.warnings, before + 1,
                            Len(result'.warnings))
        IN /\ SubSeq(result'.warnings, 1, before) = result.warnings
           /\ \A k \in 1..Len(added) :
                 \E c \in 1..Len(df.columns) : added[k].column = df.columns[c]
           /\ \A c \in 1..Len(df.columns) :
                 LET of_c == SelectSeq(added,
                                 LAMBDA e : e.column = df.columns[c])
                     rows == DamagedRows(c)
                     text == Str(df.rows[rows[1]][c])
                 IN IF rows = <<>> \/ rows[1] > 100
                    THEN of_c = <<>>
                    ELSE /\ Len(of_c) = 1
                         /\ of_c[1].line = Idx(df, rows[1]) + 2
                         /\ of_c[1].severity = None
                         /\ of_c[1].value =
                               IF Len(text) > 50
                               THEN SubSeq(text, 1, 50) \o <<".", ".", ".">>
                               ELSE text]_vars

\* the warnings of the check for column c
EncodingFindings(c) ==
    SelectSeq(result.warnings,
              LAMBDA e : /\ e.error.text = "Possible encoding issue or special characters detected"
                         /\ e.column = df.columns[c])

\* the check has passed over a column with damaged cells of more than 50
\* characters in row 100 and after it, and over a column whose only damaged
\* cell is after row 100
C15_Witness ==
    /\ pc = "report"
    /\ \E c \in 1..Len(df.columns) :
          /\ Len(DamagedRows(c)) = 2
          /\ DamagedRows(c)[1] = 100
          /\ Len(EncodingFindings(c)) = 1
          /\ Len(EncodingFindings(c)[1].value) = 53
    /\ \E c \in 1..Len(df.columns) :
          /\ Len(DamagedRows(c)) = 1
          /\ DamagedRows(c)[1] > 100
          /\ EncodingFindings(c) = <<>>


-----------------------------------------------------------------------------
(* The size of the lists *)

(* C16: the errors list and the warnings list of the returned result are   *)
(* each capped (at 3 by default for the API-facing result, at 10 for the   *)
(* report): however many findings the checkers produce, neither list       *)
(* exceeds its cap, so neither is ever longer than the larger cap, 10.     *)
C16_ListsCapped ==
    Done => Len(result.errors) <= 10 /\ Len(result.warnings) <= 10


-----------------------------------------------------------------------------
(* The order of the findings *)

\* the position of a column name in df.columns
ColumnIndex(name) ==
    CHOOSE c \in 1..Len(df.columns) : df.columns[c] = name

EncodingIndex(encoding) ==
    CHOOSE k \in 1..Len(encodings) : encodings[k] = encoding

\* the rows of the table that a finding's line can stand for (rows of the
\* same label have the same line)
RowsOfLine(line) == {r \in 1..Len(df.rows) : Idx(df, r) + 2 = line}

\* Where a finding stands by the order of discovery: the stage of
\* validate_csv_file that appends it (the reading loop, the two early
\* returns, the five checkers in the order of lines 82-94, the except
\* clause), then the column the checker is at, then the row (for a failed
\* read, the candidate encoding).
DiscoveryKey(e) ==
    LET text == e.error.text IN
    IF text = "Failed to read CSV with"
        THEN <<0, 0, {EncodingIndex(e.error.arg[1])}>>
    ELSE IF text \in {"Could not read file with any supported encoding",
                      "CSV file is completely empty"}
        THEN <<1, 0, {0}>>
    ELSE IF text = "Completely empty row detected"
        THEN <<2, 0, RowsOfLine(e.line)>>
    ELSE IF text = "Found empty rows in total" THEN <<2, 1, {0}>>
    ELSE IF text = "Duplicate column name detected" THEN <<3, 0, {0}>>
    ELSE IF text = "Non-numeric value in predominantly numeric column"
        THEN <<4, ColumnIndex(e.column), RowsOfLine(e.line)>>
    ELSE IF text = "Suspicious null-like value found"
        THEN <<5, ColumnIndex(e.column), RowsOfLine(e.line)>>
    ELSE IF text = "Possible encoding issue or special characters detected"
        THEN <<6, ColumnIndex(e.column), RowsOfLine(e.line)>>
    ELSE <<7, 0, {0}>>

KeyBefore(a, b) ==
    \/ a[1] < b[1]
    \/ a[1] = b[1] /\ a[2] < b[2]
    \/ a[1] = b[1] /\ a[2] = b[2] /\ \E x \in a[3], y \in b[3] : x < y

InDiscoveryOrder(findings) ==
    \A i, j \in 1..Len(findings) :
        i < j => KeyBefore(DiscoveryKey(findings[i]), DiscoveryKey(findings[j]))

\* the stages whose findings a list holds
StagesOf(findings) ==
    {DiscoveryKey(findings[i])[1] : i \in 1..Len(findings)}

-----------------------------------------------------------------------------
(* The report *)

(* C18: every validation call returns a report together with the result:   *)
(* the report is produced on every return path, also when no encoding      *)
(* reads the file, when the table is empty and when an unexpected fault    *)
(* occurs, so the report of a rejected file is never empty.                *)
C18_ReportOnEveryPath ==
    Done => result.detailed_report # EmptyReport


HasReport == result.detailed_report # EmptyReport

\* the positions of the heading lines of the report, in order
HeadingPositions(lines) ==
    SetToSortedSeq({i \in 1..Len(lines) : lines[i].kind = "heading"})

\* the lines of the given kind between the n-th heading and the next one
\* (or the end of the report)
LinesUnder(lines, n, kind) ==
    LET at == HeadingPositions(lines)
        last == IF n < Len(at) THEN at[n + 1] - 1 ELSE Len(lines)
    IN SelectSeq(SubSeq(lines, at[n] + 1, last), LAMBDA l : l.kind = kind)

\* the n-th section of the report lists exactly the given findings, in
\* their order
Lists(lines, n, findings) ==
    LET entries == LinesUnder(lines, n, "entry")
        messages == LinesUnder(lines, n, "message")
    IN /\ Len(entries) = Len(findings)
       /\ Len(messages) = Len(findings)
       /\ \A k \in 1..Len(findings) :
             /\ entries[k].args = <<<<ToString(k)>>,
                                    <<ToString(findings[k].line)>>,
                                    findings[k].column>>
             /\ messages[k].text = findings[k].error.text
             /\ messages[k].args = <<findings[k].error.arg>>

OfSeverity(errors, severity) ==
    SelectSeq(errors, LAMBDA e : e.severity = severity)

(* C19: the report consists, in this order, of the header (filename,       *)
(* timestamp), the summary block, the CRITICAL ERRORS section, the ERRORS   *)
(* section, the WARNINGS section and the fixed recommendations footer;     *)
(* each of the three finding sections is present exactly when the result   *)
(* has a finding of that severity, and lists all of them in result order.  *)
C19_ReportLayout ==
    (Done /\ HasReport) =>
        LET lines == result.detailed_report.lines
            at == HeadingPositions(lines)
            criticals == OfSeverity(result.errors, "critical")
            errors == OfSeverity(result.errors, "error")
            warnings == result.warnings
            sections ==
                (IF criticals # <<>>
                 THEN <<[heading |-> "CRITICAL ERRORS (Must be fixed):",
                         findings |-> criticals]>> ELSE <<>>)
                \o (IF errors # <<>>
                    THEN <<[heading |-> "ERRORS (Should be fixed):",
                            findings |-> errors]>> ELSE <<>>)
                \o (IF warnings # <<>>
                    THEN <<[heading |-> "WARNINGS (Recommended to review):",
                            findings |-> warnings]>> ELSE <<>>)
        IN /\ lines[1].kind = "title" /\ lines[1].args[1] \in Filenames
           /\ lines[2].kind = "generated" /\ lines[2].args[1] \in Clock
           /\ Len(at) = Len(sections) + 2
           /\ at[1] > 2 /\ lines[at[1]].text = "SUMMARY:"
           /\ Len(LinesUnder(lines, 1, "summary")) > 0
           /\ \A i \in 1..Len(lines) :
                 lines[i].kind = "summary" => at[1] < i /\ i < at[2]
           /\ \A n \in 1..Len(sections) :
                 /\ lines[at[n + 1]].text = sections[n].heading
                 /\ Lists(lines, n + 1, sections[n].findings)
           /\ lines[at[Len(at)]].text = "RECOMMENDATIONS:"
           /\ Len(LinesUnder(lines, Len(at), "advice")) = 7
           /\ \A i \in 1..Len(lines) :
                 i > at[Len(at)] <=> lines[i].kind = "advice"

\* a report is returned for a result with several critical findings, an
\* error and a warning
C19_Witness ==
    /\ Done /\ HasReport
    /\ Len(OfSeverity(result.errors, "critical")) > 1
    /\ OfSeverity(result.errors, "error") # <<>>
    /\ result.warnings # <<>>
    /\ Len(HeadingPositions(result.detailed_report.lines)) = 5

-----------------------------------------------------------------------------
(* The upload gate *)

(* C21: every Dataset record created by an upload is for a file that       *)
(* passed the validation gate: no upload commits a Dataset record for a    *)
(* file that was not validated, or that validation found not valid.        *)
C21_CommittedPassedGate ==
    upload.committed => returned = "result" /\ result.valid

(* C29: after an upload of a CSV file that validation found not valid, the *)
(* uploaded file is removed, no Dataset record is committed, an error      *)
(* report file is written and the response is 422 with an                  *)
(* error_report_url; on every other failing path of the upload (400, 500)  *)
(* the uploaded file is removed and no Dataset record is committed.        *)
C29_FailedUploadLeavesNothing ==
    /\ upload.route = "app" /\ upload.status = 422 =>
        /\ ~upload.stored /\ ~upload.committed
        /\ upload.report_file # NoFile /\ upload.error_report_url
    /\ upload.route = "app" /\ upload.status \in {400, 500} =>
        ~upload.stored /\ ~upload.committed

(* C30: when an upload is rejected with 422, the errors of the response    *)
(* body, the first 3 entries of the result's errors, include a finding of  *)
(* severity critical.                                                      *)
C30_RejectionShowsCritical ==
    upload.status = 422 => HasCritical(upload.errors)

-----------------------------------------------------------------------------
(* The line of a finding *)

\* the messages of the findings about one data row
RowMessages ==
    {"Completely empty row detected",
     "Non-numeric value in predominantly numeric column",
     "Suspicious null-like value found",
     "Possible encoding issue or special characters detected"}

\* the finding is about the data row of 0-based index line - 2 of the table
StandsForItsRow(e) ==
    /\ 2 <= e.line /\ e.line <= Len(df.rows) + 1
    /\ LET r == e.line - 1
           c == ColumnIndex(e.column)
           text == e.error.text
       IN IF text = "Completely empty row detected"
             THEN \A k \in 1..Len(df.columns) : df.rows[r][k] = NaN
          ELSE IF text = "Non-numeric value in predominantly numeric column"
             THEN e.value = Strip(Str(df.rows[r][c]))
          ELSE IF text = "Suspicious null-like value found"
             THEN e.value = Str(df.rows[r][c])
          ELSE HasEncodingIssue(Str(df.rows[r][c]))

LineIsRight(e) ==
    IF e.error.text \in RowMessages THEN StandsForItsRow(e)
    ELSE IF e.error.text = "Duplicate column name detected" THEN e.line = 1
    ELSE e.line = 0

(* C26: in every finding, line is 0 for a file-level finding, 1 for a      *)
(* finding about the header, and i + 2 for a finding about the data row of *)
(* 0-based index i; no row-specific finding has a line below 2 or above    *)
(* total_rows + 1.                                                         *)
C26_LineOfFinding ==
    /\ \A k \in 1..Len(result.errors) : LineIsRight(result.errors[k])
    /\ \A k \in 1..Len(result.warnings) : LineIsRight(result.warnings[k])

-----------------------------------------------------------------------------
(* The delimiter *)

\* the line of the file whose comma-separated fields are given
LineOfFields(fields) ==
    Concat([i \in 1..Len(fields) |->
               IF i = 1 THEN fields[i] ELSE <<",">> \o fields[i]],
           Len(fields))

\* the fields of a line for a delimiter
SplitOn(text, delimiter) ==
    LET cuts == SetToSortedSeq({0, Len(text) + 1}
                    \cup {i \in 1..Len(text) : text[i] = delimiter})
    IN [k \in 1..(Len(cuts) - 1) |->
           SubSeq(text, cuts[k] + 1, cuts[k + 1] - 1)]

\* the lines of the file: the header line, then the data lines
LinesOf(f) ==
    [i \in 1..(Len(f.rows) + 1) |->
        LineOfFields(IF i = 1 THEN f.header ELSE f.rows[i - 1])]

\* the comma gives lines of different numbers of fields
CommaInconsistent(f) ==
    \E i, j \in 1..Len(LinesOf(f)) :
        Len(SplitOn(LinesOf(f)[i], ",")) # Len(SplitOn(LinesOf(f)[j], ","))

\* the semicolon gives every line the same number of fields, two or more
SemicolonDelimited(f) ==
    \E n \in 2..(MaxCols + 1) :
        \A i \in 1..Len(LinesOf(f)) : Len(SplitOn(LinesOf(f)[i], ";")) = n

(* C22: when parsing with the comma gives an inconsistent column count,    *)
(* the parser retries with the semicolon, so that a semicolon-delimited    *)
(* file is parsed into its separate columns: the table that is checked     *)
(* has the columns and the cells that the semicolon separates.             *)
C22_SemicolonRetry ==
    (pc = "check_df" /\ file.header # <<>>
        /\ CommaInconsistent(file) /\ SemicolonDelimited(file)) =>
        /\ df # NoDf
        /\ df.columns = SplitOn(LinesOf(file)[1], ";")
        /\ Len(df.rows) = Len(file.rows)
        /\ \A r \in 1..Len(df.rows) :
              LET fields == SplitOn(LinesOf(file)[r + 1], ";")
              IN df.rows[r] = [c \in 1..Len(fields) |-> ParseCell(fields[c])]

-----------------------------------------------------------------------------
(* The status shown by the report *)

\* what the 'File Status' line of a report shows
FileStatus(report) ==
    LET at == CHOOSE i \in 1..Len(report.lines) :
                  report.lines[i].text = "File Status:"
    IN report.lines[at].args[1]

(* C24: the report returned with a result is rendered from the final       *)
(* result: its 'File Status' line reads FAILED exactly when the returned   *)
(* valid is false and PASSED exactly when it is true.                      *)
C24_StatusOfFinalResult ==
    (Done /\ HasReport) =>
        FileStatus(result.detailed_report) =
            IF result.valid THEN <<"PASSED">> ELSE <<"FAILED">>

-----------------------------------------------------------------------------
(* A read that fails with another error than a decode error *)

\* the read under the candidate the loop is at fails with such an error
OtherErrorStep ==
    pc = "read" /\ enc <= Len(encodings) /\ ReadOutcome(file, enc) = "other"

\* a candidate was read after an earlier one failed with such an error
ReadAfterOtherError ==
    /\ used_encoding # None
    /\ \E k \in 1..(Len(attempts) - 1) : ReadOutcome(file, k) = "other"

(* C25: when the read under a candidate fails with an error other than a   *)
(* decode error, a Critical finding naming that encoding is appended and   *)
(* the loop goes on to the next candidate of the list; the table of a      *)
(* later candidate that is read is the one checked, and that candidate is  *)
(* the encoding used, also in the summary.                                 *)
C25_OtherErrorContinues ==
    [][/\ OtherErrorStep =>
            /\ result'.errors = result.errors \o ReadFailures(<<enc>>)
            /\ attempts' = Append(attempts, encodings[enc])
            /\ pc' = "read" /\ enc' = enc + 1
            /\ df' = NoDf /\ used_encoding' = None
       /\ ReadAfterOtherError' =>
            /\ attempts' = Take(encodings, Len(attempts'))
            /\ ReadOutcome(file', Len(attempts')) = "ok"
            /\ used_encoding' = encodings[Len(attempts')]
            /\ df' = ReadCsv(file')
            /\ result'.summary # EmptySummary =>
                  result'.summary.encoding_used = used_encoding']_vars

\* utf-8 failed with such an error, a later candidate was read, its table
\* was checked and the call has returned with a report
C25_Witness ==
    /\ Done /\ HasReport
    /\ ReadAfterOtherError
    /\ Len(ran) = 5
    /\ result.summary.encoding_used # "utf-8"

-----------------------------------------------------------------------------
(* The value of a finding *)

\* at most 50 characters, or 50 characters and an ellipsis
CutForDisplay(value) ==
    \/ Len(value) <= 50
    \/ Len(value) = 53 /\ SubSeq(value, 51, 53) = <<".", ".", ".">>

(* C27: the value of every finding, whichever checker produced it, is at   *)
(* most 50 characters of the cell text, followed by an ellipsis when the   *)
(* text was longer.                                                        *)
C27_ValueCut ==
    /\ \A k \in 1..Len(result.errors) : CutForDisplay(result.errors[k].value)
    /\ \A k \in 1..Len(result.warnings) : CutForDisplay(result.warnings[k].value)

-----------------------------------------------------------------------------
(* The validator between calls *)

\* a report without its 'Generated on' line, which shows the clock
Undated(report) ==
    IF report = EmptyReport THEN report
    ELSE [lines |-> SelectSeq(report.lines, LAMBDA l : l.kind # "generated")]

\* the same result, but for the time of the report
SameResult(a, b) ==
    /\ a.valid = b.valid
    /\ a.errors = b.errors
    /\ a.warnings = b.warnings
    /\ a.summary = b.summary
    /\ Undated(a.detailed_report) = Undated(b.detailed_report)

(* C23: a validation call leaves the validator's lexicon                   *)
(* (suspicious_values) and thresholds (max_errors_shown) unchanged and     *)
(* starts from a fresh result, so the result of a call on a given input is *)
(* the same whatever calls were made before it on the same validator: a    *)
(* later call on the file of the first call returns the result of the      *)
(* first.                                                                  *)
C23_CallsAreIndependent ==
    [][/\ validator' = validator
       /\ validator.suspicious_values = suspicious_values
       /\ validator.max_errors_shown = 3
       /\ calls' # calls => result' = NewResult
       /\ (calls' > 1 /\ returned' = "result") => SameResult(result', first')]_vars

\* a second call has returned a result with findings of both lists and a
\* report
C23_Witness ==
    /\ calls = 2 /\ Done /\ HasReport
    /\ result.errors # <<>> /\ result.warnings # <<>>

-----------------------------------------------------------------------------
(* The call is one pass *)

\* the statements of validate_csv_file, in the order of the code
Stages ==
    <<"read", "check_df", "summary", "empty_rows", "duplicate_columns",
      "type_consistency", "suspicious_values", "encoding_issues", "report",
      "final_status", "except", "done">>

StageIndex(stage) == CHOOSE i \in 1..Len(Stages) : Stages[i] = stage

\* a step of one call: the call moves to a later statement, or the reading
\* loop moves to its next candidate; the report is rendered once, from the
\* empty report; after the return nothing of the call changes
OnePassStep ==
    calls' = calls =>
        /\ pc' # pc => StageIndex(pc') > StageIndex(pc)
        /\ (pc' = pc /\ returned = "no" /\ pc # "skipped") =>
              pc = "read" /\ enc' = enc + 1
        /\ result'.detailed_report # result.detailed_report =>
              pc = "report" /\ result.detailed_report = EmptyReport
        /\ returned = "result" =>
              returned' = "result" /\ result' = result /\ ran' = ran
                                   /\ attempts' = attempts

(* C28: every validation call terminates: it makes at most 5 encoding      *)
(* attempts, runs each of the five checkers at most once and in the fixed  *)
(* order, renders the report at most once, and then returns; no stage is   *)
(* retried or re-entered.                                                  *)
C28_Terminates ==
    /\ [](/\ Len(attempts) <= 5
          /\ 1 <= enc /\ enc <= Len(encodings) + 1
          /\ ran = Take(Checkers, Len(ran)))
    /\ [][OnePassStep]_vars
    /\ (returned = "no" /\ pc # "skipped") ~> (returned = "result")

\* a call has returned after all five attempts, and another after all five
\* checkers and the report
C28_Witness ==
    /\ Done
    /\ \/ Len(attempts) = 5 /\ ran = <<>>
       \/ ran = Checkers /\ HasReport /\ Len(attempts) > 1

=============================================================================
